---- MODULE Spec2Model ----
(***************************************************************************)
(* The discovery / validation message pipeline of mcp-phi-base:            *)
(*   workers/discovery/discovery_worker.py   (DiscoveryWorker)             *)
(*   workers/validation/validation_worker.py (ValidationWorker)            *)
(* Workers are independent processes that share a RabbitMQ topic exchange  *)
(* (phi.discovery), a Redis store and a PostgreSQL table.                  *)
(*                                                                         *)
(* Conventions of the model                                                *)
(*  - an equation is the sequence of its characters; "INT" stands for the  *)
(*    integral sign and "PHI" for the Greek letter phi;                    *)
(*  - a confidence is an integer in units of 1/3000 (1.0 = 3000,           *)
(*    0.9 = 2700, 2/3 = 2000, 0.5 = 1500, 1/3 = 1000);                     *)
(*  - a message body is a record; `ok` says json.loads yields a dict and   *)
(*    `keys` is the set of keys of that dict;                              *)
(*  - a callback is split where it publishes, where it runs the upsert and  *)
(*    where it acknowledges, so that the workers interleave at those       *)
(*    calls; the consecutive Redis writes of one method are one step with  *)
(*    one outcome for every call of the method that can raise;             *)
(*  - one message is published by a producer before the workers consume;   *)
(*  - time is counted in hundredths of a second, and a standard deviation  *)
(*    is rounded down to a whole number of them;                           *)
(*  - basic_ack and basic_nack themselves do not raise.                    *)
(***************************************************************************)
EXTENDS Integers, Sequences, FiniteSets, TLC

\* ---------------------------------------------------------------- bounds
\* events the environment injects in one run: a call to Redis, RabbitMQ or
\* PostgreSQL that raises, a shutdown signal (KeyboardInterrupt), or a lapse
\* of time between two steps
MaxFaults == 1

\* the longest equation drawn from Alphabet
MaxLen == 3

\* ------------------------------------------------------------- constants
\* PSI = 0.618033988749894, in units of 1/3000 (c > PSI iff c > 1854)
PSI == 1854
\* PSI seconds, in thousandths of a second
PsiMillis == 618
\* the 60 seconds a phase:<workerType> key lives, in hundredths of a second
TTL == 6000

\* -------------------------------------------------------------- equations
EqPlain == <<"x", "=", "1">>
EqGroup == <<"(", "a", ")", "=", "(", "b", ")">>
EqOpen == <<"(", "(", "a", "=", "b">>
EqPhi == <<"(", "(", "PHI", ")", ")">>
\* the golden-ratio identity and two equations with unbalanced grouping
EqGolden == <<"PHI", "^2", "=", "PHI", "+", "1">>
EqHalfOpen == <<"(", "a", "=", "b">>
EqInverted == <<")", "a", "=", "b", "(">>

\* the characters the workers look at
Alphabet == {"(", ")", "=", "INT", "PHI"}

RECURSIVE Strings(_)
\* the strings over Alphabet of length at most n
Strings(n) ==
    IF n = 0 THEN {<<>>}
    ELSE LET shorter == Strings(n - 1)
         IN  shorter \cup {Append(s, ch) : s \in shorter, ch \in Alphabet}

Named == {EqPlain, EqGroup, EqOpen, EqPhi, EqGolden, EqHalfOpen, EqInverted}
Equations == Named \cup Strings(MaxLen)

RECURSIVE count(_, _)
\* str.count(ch)
count(equation, ch) ==
    IF equation = <<>> THEN 0
    ELSE (IF Head(equation) = ch THEN 1 ELSE 0) + count(Tail(equation), ch)

\* `ch in equation`
contains(equation, ch) == \E i \in 1..Len(equation) : equation[i] = ch

\* ------------------------------------------------------------ worker roles
DiscoveryTypes == {"pattern_recognizer", "equation_generator", "phase_optimizer"}
ValidationTypes == {"theorem_checker", "numerical_validator", "symbolic_verifier"}
\* a worker started with a type string that is none of the documented ones
OtherDiscovery == "other_discovery"
OtherValidation == "other_validation"
DiscoveryWorkers == DiscoveryTypes \cup {OtherDiscovery}
ValidationWorkers == ValidationTypes \cup {OtherValidation}
Workers == DiscoveryWorkers \cup ValidationWorkers

\* DiscoveryWorker._determine_phase
determine_phase(worker_type) ==
    CASE worker_type = "pattern_recognizer" -> "past"
      [] worker_type = "equation_generator" -> "present"
      [] worker_type = "phase_optimizer" -> "future"
      [] OTHER -> "present"

\* ------------------------------------------------------------ the envelope
NoBetti == <<>>
\* the body of a delivery that json.loads cannot turn into a dict
Garbage ==
    [ok |-> FALSE, keys |-> {}, equation |-> <<>>, phase |-> "none",
     patterns |-> {}, derived_equations |-> <<>>, confidence |-> 0,
     betti |-> NoBetti, implications |-> {}, phase_lock |-> 0,
     worker |-> "none"]

\* the JSON object {"equation": eq}
Envelope(eq) ==
    [Garbage EXCEPT !.ok = TRUE, !.keys = {"equation"}, !.equation = eq]

\* a JSON object without an equation field: {"confidence": 0.8}
NoEquation ==
    [Garbage EXCEPT !.ok = TRUE, !.keys = {"confidence"}, !.confidence = 2400]

\* dict.get(key, default) for the confidence
get_confidence(data) ==
    IF "confidence" \in data.keys THEN data.confidence ELSE 0

\* ---------------------------------------------------------- Topology Gate
\* mutant: b1 counts every "(" instead of every second one
compute_betti_vector_every_open(equation) ==
    <<count(equation, "=") + 1, count(equation, "("), count(equation, "INT")>>

\* mutant: b0 counts the "=" without the one added for the components
compute_betti_vector_separators(equation) ==
    <<count(equation, "="), count(equation, "(") \div 2, count(equation, "INT")>>

\* DiscoveryWorker.compute_betti_vector
compute_betti_vector(equation) ==
    <<count(equation, "=") + 1, count(equation, "(") \div 2, count(equation, "INT")>>

\* chi = betti[0] - betti[1] + betti[2]
euler(betti) == betti[1] - betti[2] + betti[3]

\* mutant: the threshold off by one
topology_violation_above_two(chi) == chi > 2

\* mutant: the gate admits every message
topology_violation_never(chi) == FALSE

\* the topology constraint of process_discovery: `if chi > 1` rejects
topology_violation(chi) == chi > 1

\* -------------------------------------------------------------- enrichment
\* the phi-patterns _recognize_patterns looks for ("NABLA2" stands for the
\* Laplacian marker)
detect_patterns(equation) ==
    (IF contains(equation, "PHI") THEN {"golden_ratio"} ELSE {})
    \cup (IF contains(equation, "NABLA2") THEN {"laplacian"} ELSE {})
    \cup (IF contains(equation, "INT") THEN {"integral"} ELSE {})

\* mutant: the recognizer tags its result with the next phase
recognize_patterns_advanced(data, worker_type) ==
    [data EXCEPT !.keys = @ \cup {"patterns", "phase", "timestamp", "worker"},
                 !.patterns = detect_patterns(data.equation),
                 !.phase = "present",
                 !.worker = worker_type]

\* mutant: the recognizer drops the parentheses of the equation it republishes
recognize_patterns_flattened(data, worker_type) ==
    [data EXCEPT !.keys = @ \cup {"patterns", "phase", "timestamp", "worker"},
                 !.equation = SelectSeq(data.equation, LAMBDA t : t \notin {"(", ")"}),
                 !.patterns = detect_patterns(data.equation),
                 !.phase = "past",
                 !.worker = worker_type]

\* DiscoveryWorker._recognize_patterns: {**data, patterns, phase, timestamp, worker}
recognize_patterns(data, worker_type) ==
    [data EXCEPT !.keys = @ \cup {"patterns", "phase", "timestamp", "worker"},
                 !.patterns = detect_patterns(data.equation),
                 !.phase = "past",
                 !.worker = worker_type]

\* 0.8 + np.random.random() * 0.2 lies in [0.8, 1.0): one representative
GeneratedConfidences == {2400}

DerivedGolden == << <<"PHI", "^2", "=", "PHI", "+", "1">>,
                    <<"PHI", "=", "(", "1", "+", "sqrt5", ")", "/", "2">> >>

\* DiscoveryWorker._generate_equations: {**data, derived_equations, phase,
\* confidence, worker}; c is the random draw
generate_equations(data, worker_type, c) ==
    [data EXCEPT !.keys = @ \cup {"derived_equations", "phase", "confidence", "worker"},
                 !.derived_equations =
                     IF "patterns" \in data.keys /\ "golden_ratio" \in data.patterns
                     THEN DerivedGolden ELSE <<>>,
                 !.phase = "present",
                 !.confidence = c,
                 !.worker = worker_type]

\* DiscoveryWorker._optimize_phase: {**data, phase_lock, implications, phase,
\* optimized, worker}; coherence is what check_phase_lock returned
optimize_phase(data, worker_type, coherence) ==
    [data EXCEPT !.keys = @ \cup {"phase_lock", "implications", "phase", "optimized", "worker"},
                 !.phase_lock = coherence,
                 !.implications =
                     IF get_confidence(data) > PSI
                     THEN {"validates_golden_structure"} ELSE {},
                 !.phase = "future",
                 !.worker = worker_type]

\* ------------------------------------------------------------------ broker
\* routing keys are sequences of words
KeyPast == <<"discovery", "past", "scan">>
KeyPresent == <<"discovery", "present", "equation">>
KeyFuture == <<"discovery", "future", "optimize">>
KeyValidation == <<"validation", "request">>

\* mutant: the routing key is built from the result's own phase
route_key_own_phase(result) == <<"discovery", result.phase, "next">>

\* mutant: every result goes straight to validation
route_key_validation_only(result) == KeyValidation

\* DiscoveryWorker._route_discovery: the routing key chosen from result['phase']
route_key(result) ==
    IF result.phase = "past" THEN KeyPresent
    ELSE IF result.phase = "present" THEN KeyFuture
    ELSE KeyValidation

\* the binding of a worker's queue on the exchange phi.discovery
binding(w) ==
    IF w \in DiscoveryWorkers
    THEN <<"discovery", determine_phase(w), "*">>
    ELSE KeyValidation

\* topic exchange: a binding word "*" matches exactly one word of the key
topic_match(pattern, key) ==
    /\ Len(pattern) = Len(key)
    /\ \A i \in 1..Len(pattern) : pattern[i] = "*" \/ pattern[i] = key[i]

\* ------------------------------------------------------------------- state
VARIABLES
    deployed,             \* the worker processes that were started
    queue,                \* queue[w]: the durable queue discovery.<w> / validation.<w>
    pc,                   \* pc[w]: where worker w is in its callback
    cur,                  \* cur[w]: the delivery w handles, or handled last
    now,                  \* time.time()
    phase_keys,           \* Redis phase:<workerType>: <<t>> once written at time t
    last_discovery,       \* Redis hash last_discovery (<<>> while unset)
    chi_current,          \* Redis chi_current (<<>> while unset)
    validation_state,     \* Redis hashes validation:<workerType>:<equation>
    validations_success,  \* Redis counter validations:success
    validations_failed,   \* Redis counter validations:failed
    validated_equations,  \* PostgreSQL table, keyed by equation
    signalled,            \* the workers stopped by a shutdown signal
    faults                \* environment events so far (raised calls, signals)

vars ==
    <<deployed, now, queue, pc, cur, phase_keys, last_discovery, chi_current,
      validation_state, validations_success, validations_failed,
      validated_equations, signalled, faults>>

redis == <<phase_keys, last_discovery, chi_current, validation_state,
           validations_success, validations_failed>>

\* a message in a queue: its body, who published it, and on which routing key
Message(body, publisher, key) == [body |-> body, publisher |-> publisher, key |-> key]

\* a verdict: the fields of a validation result the workers store
NoVerdict ==
    [equation |-> <<>>, validation_type |-> "none", valid |-> FALSE, confidence |-> 0]

\* the record of one delivery to a callback
Delivery(msg) ==
    [seen |-> TRUE, msg |-> msg, betti |-> NoBetti, phases |-> <<>>,
     result |-> Garbage,
     verdict |-> NoVerdict, acks |-> 0, nacks |-> 0, published |-> <<>>, wrote |-> {},
     raised |-> "none", stored |-> "none"]

NoDelivery ==
    [Delivery(Message(Garbage, "none", <<>>)) EXCEPT !.seen = FALSE]

\* mutant: one queue shared by the consumers, a message goes to one of them
publish_work_sharing(q, msg) ==
    LET targets == {w \in deployed : topic_match(binding(w), msg.key)}
    IN  IF targets = {} THEN q
        ELSE [q EXCEPT ![CHOOSE w \in targets : TRUE] = Append(@, msg)]

\* basic_publish on phi.discovery: every queue whose binding matches gets a copy
publish(q, msg) ==
    [w \in Workers |->
        IF w \in deployed /\ topic_match(binding(w), msg.key)
        THEN Append(q[w], msg) ELSE q[w]]

\* ------------------------------------------------- discovery: process_discovery
\* mutant: basic_nack(delivery_tag, requeue=False), the broker drops the message
nack_discovery_drop(w, d, q) ==
    /\ cur' = [cur EXCEPT ![w] = [d EXCEPT !.nacks = @ + 1]]
    /\ queue' = q
    /\ pc' = [pc EXCEPT ![w] = "idle"]

\* channel.basic_nack(delivery_tag): requeue defaults to True, the message goes
\* back to the worker's queue; the callback returns
nack_discovery(w, d, q) ==
    /\ cur' = [cur EXCEPT ![w] = [d EXCEPT !.nacks = @ + 1]]
    /\ queue' = [q EXCEPT ![w] = Append(@, d.msg)]
    /\ pc' = [pc EXCEPT ![w] = "idle"]

\* mutant: the exception leaves the callback and ends start_consuming
except_discovery_propagates(w, d, q, what) ==
    /\ cur' = [cur EXCEPT ![w] = [d EXCEPT !.raised = what]]
    /\ queue' = [q EXCEPT ![w] = <<d.msg>> \o @]
    /\ pc' = [pc EXCEPT ![w] = "stopped"]

\* `except Exception as e:` of process_discovery (lines 178-180)
except_discovery(w, d, q, what) ==
    nack_discovery(w, [d EXCEPT !.raised = what], q)

\* check_phase_lock, lines 130-134: the values of the phase:* keys that have
\* not expired, by worker
live_phases ==
    [w \in {v \in DiscoveryWorkers :
               phase_keys[v] # <<>> /\ now < phase_keys[v][1] + TTL}
        |-> phase_keys[w][1]]

RECURSIVE sum_over(_, _, _)
\* the sum of f[w] * (f[w] or 1) over the workers of S
sum_over(f, S, squared) ==
    IF S = {} THEN 0
    ELSE LET w == CHOOSE v \in S : TRUE
         IN  (IF squared THEN f[w] * f[w] ELSE f[w]) + sum_over(f, S \ {w}, squared)

RECURSIVE isqrt(_, _, _)
\* the greatest r in lo..hi with r * r <= x
isqrt(x, lo, hi) ==
    IF lo >= hi THEN lo
    ELSE LET mid == (lo + hi + 1) \div 2
         IN  IF mid * mid <= x THEN isqrt(x, mid, hi) ELSE isqrt(x, lo, mid - 1)

\* np.std(phases): the population standard deviation, which does not change
\* when every value is shifted; the values are taken from the earliest one
std(phases) ==
    LET S == DOMAIN phases
        n == Cardinality(S)
        first == CHOOSE t \in {phases[w] : w \in S} : \A w \in S : t <= phases[w]
        shifted == [w \in S |-> phases[w] - first]
        total == sum_over(shifted, S, FALSE)
    IN  isqrt(n * sum_over(shifted, S, TRUE) - total * total, 0, n * TTL) \div n

\* mutant: the ratio is not clamped to 1
check_phase_lock_unclamped(phases) ==
    IF DOMAIN phases = {} THEN 0
    ELSE 3000 - (std(phases) * 30000) \div PsiMillis

\* check_phase_lock, lines 136-141: 1.0 - min(coherence / PSI, 1.0), in units
\* of 1/3000, of the values read
check_phase_lock(phases) ==
    IF DOMAIN phases = {} THEN 0
    ELSE LET ratio == (std(phases) * 30000) \div PsiMillis
         IN  3000 - (IF ratio < 3000 THEN ratio ELSE 3000)

\* the role dispatch of process_discovery (lines 162-167)
Enrichments(w, data) ==
    CASE w = "pattern_recognizer" -> {recognize_patterns(data, w)}
      [] w = "equation_generator" ->
            {generate_equations(data, w, c) : c \in GeneratedConfidences}
      [] w = "phase_optimizer" ->
            {optimize_phase(data, w, check_phase_lock(live_phases))}
      [] OTHER -> {}

\* a call to an external service raises
Raises == faults < MaxFaults /\ faults' = faults + 1

\* mutant: the heartbeat is written last, after last_discovery and chi_current,
\* so a call that raises before it leaves the phase key as it was
update_shared_state_heartbeat_last(w, d, q) ==
    LET result == d.result
        confident == get_confidence(result) > PSI
        has_betti == "betti" \in result.keys
        heartbeat == [phase_keys EXCEPT ![w] = <<now>>]
        discovery == <<[equation |-> result.equation,
                        confidence |-> result.confidence]>>
        wrote_ld == IF confident THEN {"last_discovery"} ELSE {}
        ld == IF confident THEN discovery ELSE last_discovery
        wrote_chi == wrote_ld \cup (IF has_betti THEN {"chi_current"} ELSE {})
        chi == IF has_betti THEN <<euler(result.betti)>> ELSE chi_current
    IN  \/ /\ confident /\ "timestamp" \notin result.keys
           /\ except_discovery(w, d, q, "KeyError:timestamp")
           /\ UNCHANGED <<phase_keys, last_discovery, chi_current, faults>>
        \/ /\ confident /\ "timestamp" \in result.keys
           /\ Raises
           /\ except_discovery(w, d, q, "redis.hset")
           /\ UNCHANGED <<phase_keys, last_discovery, chi_current>>
        \/ /\ confident => "timestamp" \in result.keys
           /\ has_betti
           /\ Raises
           /\ last_discovery' = ld
           /\ except_discovery(w, [d EXCEPT !.wrote = wrote_ld], q, "redis.set")
           /\ UNCHANGED <<phase_keys, chi_current>>
        \/ /\ confident => "timestamp" \in result.keys
           /\ Raises
           /\ last_discovery' = ld
           /\ chi_current' = chi
           /\ except_discovery(w, [d EXCEPT !.wrote = wrote_chi], q, "redis.setex")
           /\ UNCHANGED phase_keys
        \/ /\ confident => "timestamp" \in result.keys
           /\ phase_keys' = heartbeat
           /\ last_discovery' = ld
           /\ chi_current' = chi
           /\ cur' = [cur EXCEPT ![w] = [d EXCEPT !.wrote = wrote_chi \cup {"phase"}]]
           /\ queue' = q
           /\ pc' = [pc EXCEPT ![w] = "publish"]
           /\ UNCHANGED faults

\* DiscoveryWorker._update_shared_state (lines 240-257) on the enriched result:
\* the Redis writes happen in the order setex, hset, set, and the first call
\* that raises ends the method with the earlier writes kept.  d is the delivery.
update_shared_state(w, d, q) ==
    LET result == d.result
        confident == get_confidence(result) > PSI
        has_betti == "betti" \in result.keys
        heartbeat == [phase_keys EXCEPT ![w] = <<now>>]
        discovery == <<[equation |-> result.equation,
                        confidence |-> result.confidence]>>
        wrote_ld == IF confident THEN {"phase", "last_discovery"} ELSE {"phase"}
        ld == IF confident THEN discovery ELSE last_discovery
    IN  \/ \* line 244: redis.setex raises
           /\ Raises
           /\ except_discovery(w, d, q, "redis.setex")
           /\ UNCHANGED <<phase_keys, last_discovery, chi_current>>
        \/ \* line 251: result['timestamp'] is missing
           /\ confident /\ "timestamp" \notin result.keys
           /\ phase_keys' = heartbeat
           /\ except_discovery(w, [d EXCEPT !.wrote = {"phase"}], q, "KeyError:timestamp")
           /\ UNCHANGED <<last_discovery, chi_current, faults>>
        \/ \* line 248: redis.hset raises
           /\ confident /\ "timestamp" \in result.keys
           /\ Raises
           /\ phase_keys' = heartbeat
           /\ except_discovery(w, [d EXCEPT !.wrote = {"phase"}], q, "redis.hset")
           /\ UNCHANGED <<last_discovery, chi_current>>
        \/ \* line 257: redis.set raises
           /\ confident => "timestamp" \in result.keys
           /\ has_betti
           /\ Raises
           /\ phase_keys' = heartbeat
           /\ last_discovery' = ld
           /\ except_discovery(w, [d EXCEPT !.wrote = wrote_ld], q, "redis.set")
           /\ UNCHANGED chi_current
        \/ \* every write succeeds
           /\ confident => "timestamp" \in result.keys
           /\ phase_keys' = heartbeat
           /\ last_discovery' = ld
           /\ chi_current' = IF has_betti THEN <<euler(result.betti)>> ELSE chi_current
           /\ cur' = [cur EXCEPT ![w] =
                        [d EXCEPT !.wrote = wrote_ld \cup
                            (IF has_betti THEN {"chi_current"} ELSE {})]]
           /\ queue' = q
           /\ pc' = [pc EXCEPT ![w] = "publish"]
           /\ UNCHANGED faults

\* mutant: the equation is read with data.get('equation', ''), as
\* process_validation reads it, so that a body without one is processed
ReceiveDiscovery_default_equation(w) ==
    /\ w \in deployed /\ w \in DiscoveryWorkers
    /\ pc[w] = "idle" /\ queue[w] # <<>>
    /\ LET msg == Head(queue[w])
           data == msg.body
           d == Delivery(msg)
           q == [queue EXCEPT ![w] = Tail(@)]
           quiet == UNCHANGED <<phase_keys, last_discovery, chi_current, faults>>
       IN  IF ~data.ok
           THEN except_discovery(w, d, q, "json.loads") /\ quiet
           ELSE LET betti == compute_betti_vector(data.equation)
                    b == [d EXCEPT !.betti = betti,
                                   !.phases = IF w = "phase_optimizer"
                                              THEN live_phases ELSE <<>>]
                IN  IF topology_violation(euler(betti))
                    THEN nack_discovery(w, b, q) /\ quiet
                    ELSE IF Enrichments(w, data) = {}
                    THEN except_discovery(w, b, q, "UnboundLocalError:result") /\ quiet
                    ELSE \E result \in Enrichments(w, data) :
                            update_shared_state(w, [b EXCEPT !.result = result], q)
    /\ UNCHANGED <<deployed, now, validation_state, validations_success,
                   validations_failed, validated_equations, signalled>>

\* process_discovery, lines 145-170: parse, gate, enrichment, Redis update
ReceiveDiscovery(w) ==
    /\ w \in deployed /\ w \in DiscoveryWorkers
    /\ pc[w] = "idle" /\ queue[w] # <<>>
    /\ LET msg == Head(queue[w])
           data == msg.body
           d == Delivery(msg)
           q == [queue EXCEPT ![w] = Tail(@)]
           quiet == UNCHANGED <<phase_keys, last_discovery, chi_current, faults>>
       IN  IF ~data.ok
           THEN except_discovery(w, d, q, "json.loads") /\ quiet
           ELSE IF "equation" \notin data.keys
           THEN except_discovery(w, d, q, "KeyError:equation") /\ quiet
           ELSE LET betti == compute_betti_vector(data.equation)
                    b == [d EXCEPT !.betti = betti,
                                   !.phases = IF w = "phase_optimizer"
                                              THEN live_phases ELSE <<>>]
                IN  IF topology_violation(euler(betti))
                    THEN nack_discovery(w, b, q) /\ quiet
                    ELSE IF Enrichments(w, data) = {}
                    THEN except_discovery(w, b, q, "UnboundLocalError:result") /\ quiet
                    ELSE \E result \in Enrichments(w, data) :
                            update_shared_state(w, [b EXCEPT !.result = result], q)
    /\ UNCHANGED <<deployed, now, validation_state, validations_success,
                   validations_failed, validated_equations, signalled>>

\* mutant: a publish that raises is ignored and the callback goes on to ack
RouteDiscovery_unchecked(w) ==
    /\ pc[w] = "publish"
    /\ \/ /\ LET key == route_key(cur[w].result)
             IN  /\ queue' = publish(queue, Message(cur[w].result, w, key))
                 /\ cur' = [cur EXCEPT ![w].published = Append(@, key)]
          /\ pc' = [pc EXCEPT ![w] = "ack"]
          /\ UNCHANGED faults
       \/ /\ Raises
          /\ pc' = [pc EXCEPT ![w] = "ack"]
          /\ UNCHANGED <<queue, cur>>
    /\ UNCHANGED <<deployed, now, redis, validated_equations, signalled>>

\* _route_discovery, lines 259-277: basic_publish on the chosen routing key
RouteDiscovery(w) ==
    /\ pc[w] = "publish"
    /\ \/ /\ LET key == route_key(cur[w].result)
             IN  /\ queue' = publish(queue, Message(cur[w].result, w, key))
                 /\ cur' = [cur EXCEPT ![w].published = Append(@, key)]
          /\ pc' = [pc EXCEPT ![w] = "ack"]
          /\ UNCHANGED faults
       \/ /\ Raises
          /\ except_discovery(w, cur[w], queue, "basic_publish")
    /\ UNCHANGED <<deployed, now, redis, validated_equations, signalled>>

\* line 176: channel.basic_ack(delivery_tag)
AckDiscovery(w) ==
    /\ pc[w] = "ack" /\ w \in DiscoveryWorkers
    /\ cur' = [cur EXCEPT ![w].acks = @ + 1]
    /\ pc' = [pc EXCEPT ![w] = "idle"]
    /\ UNCHANGED <<deployed, now, queue, redis, validated_equations, signalled, faults>>

\* ------------------------------------------------------ validation: verdicts
RECURSIVE balanced(_, _)
\* the running counter of _is_well_formed (lines 226-235)
balanced(equation, paren_count) ==
    IF equation = <<>> THEN paren_count = 0
    ELSE LET c == IF Head(equation) = "(" THEN paren_count + 1
                  ELSE IF Head(equation) = ")" THEN paren_count - 1
                  ELSE paren_count
         IN  IF c < 0 THEN FALSE ELSE balanced(Tail(equation), c)

\* mutant: the parentheses are only counted, not scanned
is_well_formed_by_totals(equation) ==
    /\ equation # <<>>
    /\ contains(equation, "=")
    /\ count(equation, "(") = count(equation, ")")

\* ValidationWorker._is_well_formed
is_well_formed(equation) ==
    IF equation = <<>> \/ ~contains(equation, "=") THEN FALSE
    ELSE balanced(equation, 0)

\* ValidationWorker._check_dimensions (a placeholder that returns True)
check_dimensions(equation) == TRUE

\* the checks dict of _check_theorem (lines 141-145)
theorem_checks(equation) ==
    [well_formed |-> is_well_formed(equation),
     dimensionally_consistent |-> check_dimensions(equation),
     mathematically_valid |-> TRUE]

\* mutant: one passed check is enough for a valid verdict
check_theorem_any(data) ==
    LET checks == theorem_checks(data.equation)
        passed == Cardinality({k \in DOMAIN checks : checks[k]})
    IN  [equation |-> data.equation, validation_type |-> "theorem",
         valid |-> \E k \in DOMAIN checks : checks[k],
         confidence |-> (passed * 3000) \div Cardinality(DOMAIN checks),
         checks |-> checks]

\* ValidationWorker._check_theorem: valid = all(checks.values()), confidence =
\* sum(checks.values()) / len(checks)
check_theorem(data) ==
    LET checks == theorem_checks(data.equation)
        passed == Cardinality({k \in DOMAIN checks : checks[k]})
    IN  [equation |-> data.equation, validation_type |-> "theorem",
         valid |-> \A k \in DOMAIN checks : checks[k],
         confidence |-> (passed * 3000) \div Cardinality(DOMAIN checks),
         checks |-> checks]

\* mutant: the golden-ratio identity is found not to hold
phi_identity_fails == FALSE

\* abs(float(PHI**2 - PHI - 1)) < 1e-10 at 50 digits, PHI given to 58 digits
phi_identity == TRUE

\* mutant: a valid numerical verdict keeps the confidence the request carried
validate_numerical_keeps_confidence(data) ==
    LET test_results ==
            IF contains(data.equation, "PHI")
            THEN <<[name |-> "phi_identity", holds |-> phi_identity]>> ELSE <<>>
        valid == \A i \in 1..Len(test_results) : test_results[i].holds
    IN  [equation |-> data.equation, validation_type |-> "numerical",
         valid |-> valid,
         confidence |-> IF ~valid THEN 1500
                        ELSE IF "confidence" \in data.keys THEN data.confidence
                        ELSE 3000,
         test_results |-> test_results]

\* ValidationWorker._validate_numerical
validate_numerical(data) ==
    LET test_results ==
            IF contains(data.equation, "PHI")
            THEN <<[name |-> "phi_identity", holds |-> phi_identity]>> ELSE <<>>
        valid == \A i \in 1..Len(test_results) : test_results[i].holds
    IN  [equation |-> data.equation, validation_type |-> "numerical",
         valid |-> valid, confidence |-> IF valid THEN 3000 ELSE 1500,
         test_results |-> test_results]

\* mutant: the verdict does not depend on the equation
verify_symbolic_unconditional(data) ==
    [equation |-> data.equation, validation_type |-> "symbolic",
     valid |-> TRUE, confidence |-> 2700]

\* ValidationWorker._verify_symbolic
verify_symbolic(data) ==
    LET valid == contains(data.equation, "=")
    IN  [equation |-> data.equation, validation_type |-> "symbolic",
         valid |-> valid, confidence |-> IF valid THEN 2700 ELSE 0]

\* mutant: the incoming confidence replaces the stored one
greatest_incoming(existing, incoming) == incoming

\* mutant: the confidences add up
greatest_sum(existing, incoming) == existing + incoming

\* GREATEST(validated_equations.confidence, EXCLUDED.confidence)
greatest(existing, incoming) == IF existing >= incoming THEN existing ELSE incoming

\* mutant: on conflict the metadata of the row is kept
upsert_keep_metadata(table, result) ==
    LET e == result.equation
        row == table[e]
    IN  [table EXCEPT ![e] =
            IF row = <<>>
            THEN <<[confidence |-> result.confidence,
                    validation_type |-> result.validation_type,
                    metadata |-> result]>>
            ELSE <<[confidence |-> greatest(row[1].confidence, result.confidence),
                    validation_type |-> row[1].validation_type,
                    metadata |-> row[1].metadata]>>]

\* the INSERT ... ON CONFLICT (equation) DO UPDATE of _store_validated_equation
upsert(table, result) ==
    LET e == result.equation
        row == table[e]
    IN  [table EXCEPT ![e] =
            IF row = <<>>
            THEN <<[confidence |-> result.confidence,
                    validation_type |-> result.validation_type,
                    metadata |-> result]>>
            ELSE <<[confidence |-> greatest(row[1].confidence, result.confidence),
                    validation_type |-> row[1].validation_type,
                    metadata |-> result]>>]

\* ------------------------------------------------ validation: process_validation
\* channel.basic_nack(delivery_tag) of process_validation (requeue by default)
nack_validation(w, d, q) ==
    /\ cur' = [cur EXCEPT ![w] = [d EXCEPT !.nacks = @ + 1]]
    /\ queue' = [q EXCEPT ![w] = Append(@, d.msg)]
    /\ pc' = [pc EXCEPT ![w] = "idle"]

\* mutant: the except clause logs the error and returns without settling
except_validation_silent(w, d, q, what) ==
    /\ cur' = [cur EXCEPT ![w] = [d EXCEPT !.raised = what]]
    /\ queue' = q
    /\ pc' = [pc EXCEPT ![w] = "idle"]

\* `except Exception as e:` of process_validation (lines 132-134)
except_validation(w, d, q, what) ==
    nack_validation(w, [d EXCEPT !.raised = what], q)

\* mutant: the dispatch knows the theorem_checker only, so `result` stays
\* unbound for the other roles
Verdicts_theorem_only(w, data) ==
    IF w = "theorem_checker" THEN {check_theorem(data)} ELSE {}

\* the role dispatch of process_validation (lines 115-120)
Verdicts(w, data) ==
    CASE w = "theorem_checker" -> {check_theorem(data)}
      [] w = "numerical_validator" -> {validate_numerical(data)}
      [] w = "symbolic_verifier" -> {verify_symbolic(data)}
      [] OTHER -> {}

\* mutant: every verdict is counted as a success
update_validation_state_success_only(w, d, q) ==
    LET v == d.verdict
        state == [validation_state EXCEPT ![w][v.equation] =
                     <<[valid |-> v.valid, confidence |-> v.confidence]>>]
    IN  \/ /\ Raises
           /\ except_validation(w, d, q, "redis.hset")
           /\ UNCHANGED <<validation_state, validations_success, validations_failed>>
        \/ /\ Raises
           /\ validation_state' = state
           /\ except_validation(w, [d EXCEPT !.wrote = {"validation"}], q, "redis.incr")
           /\ UNCHANGED <<validations_success, validations_failed>>
        \/ /\ validation_state' = state
           /\ validations_success' = validations_success + 1
           /\ UNCHANGED validations_failed
           /\ cur' = [cur EXCEPT ![w] = [d EXCEPT !.wrote = {"validation", "counter"}]]
           /\ queue' = q
           /\ pc' = [pc EXCEPT ![w] = IF v.valid THEN "store" ELSE "ack"]
           /\ UNCHANGED faults

\* mutant: the verdict is stored whether it is valid or not
update_validation_state_store_always(w, d, q) ==
    LET v == d.verdict
        state == [validation_state EXCEPT ![w][v.equation] =
                     <<[valid |-> v.valid, confidence |-> v.confidence]>>]
    IN  \/ /\ Raises
           /\ except_validation(w, d, q, "redis.hset")
           /\ UNCHANGED <<validation_state, validations_success, validations_failed>>
        \/ /\ Raises
           /\ validation_state' = state
           /\ except_validation(w, [d EXCEPT !.wrote = {"validation"}], q, "redis.incr")
           /\ UNCHANGED <<validations_success, validations_failed>>
        \/ /\ validation_state' = state
           /\ IF v.valid
              THEN /\ validations_success' = validations_success + 1
                   /\ UNCHANGED validations_failed
              ELSE /\ validations_failed' = validations_failed + 1
                   /\ UNCHANGED validations_success
           /\ cur' = [cur EXCEPT ![w] = [d EXCEPT !.wrote = {"validation", "counter"}]]
           /\ queue' = q
           /\ pc' = [pc EXCEPT ![w] = "store"]
           /\ UNCHANGED faults

\* ValidationWorker._update_validation_state (lines 242-256): hset of the
\* per-(role, equation) hash, then incr of one counter; d is the delivery
update_validation_state(w, d, q) ==
    LET v == d.verdict
        state == [validation_state EXCEPT ![w][v.equation] =
                     <<[valid |-> v.valid, confidence |-> v.confidence]>>]
    IN  \/ \* line 246: redis.hset raises
           /\ Raises
           /\ except_validation(w, d, q, "redis.hset")
           /\ UNCHANGED <<validation_state, validations_success, validations_failed>>
        \/ \* line 254 / 256: redis.incr raises
           /\ Raises
           /\ validation_state' = state
           /\ except_validation(w, [d EXCEPT !.wrote = {"validation"}], q, "redis.incr")
           /\ UNCHANGED <<validations_success, validations_failed>>
        \/ \* both writes succeed; line 126 decides whether the verdict is stored
           /\ validation_state' = state
           /\ IF v.valid
              THEN /\ validations_success' = validations_success + 1
                   /\ UNCHANGED validations_failed
              ELSE /\ validations_failed' = validations_failed + 1
                   /\ UNCHANGED validations_success
           /\ cur' = [cur EXCEPT ![w] = [d EXCEPT !.wrote = {"validation", "counter"}]]
           /\ queue' = q
           /\ pc' = [pc EXCEPT ![w] = IF v.valid THEN "store" ELSE "ack"]
           /\ UNCHANGED faults

\* process_validation, lines 106-123: parse, role dispatch, Redis update
ReceiveValidation(w) ==
    /\ w \in deployed /\ w \in ValidationWorkers
    /\ pc[w] = "idle" /\ queue[w] # <<>>
    /\ LET msg == Head(queue[w])
           data == msg.body
           d == Delivery(msg)
           q == [queue EXCEPT ![w] = Tail(@)]
           quiet == UNCHANGED <<validation_state, validations_success,
                                validations_failed, faults>>
       IN  IF ~data.ok
           THEN except_validation(w, d, q, "json.loads") /\ quiet
           ELSE IF Verdicts(w, data) = {}
           THEN except_validation(w, d, q, "UnboundLocalError:result") /\ quiet
           ELSE IF "equation" \notin data.keys
           THEN except_validation(w, d, q, "KeyError:equation") /\ quiet
           ELSE \E v \in Verdicts(w, data) :
                   update_validation_state(w, [d EXCEPT !.verdict = v], q)
    /\ UNCHANGED <<deployed, now, phase_keys, last_discovery, chi_current,
                   validated_equations, signalled>>

\* _store_validated_equation, lines 258-287.  The upsert commits; or it raises
\* and the handler of line 285 logs and rolls back, after which the method
\* returns normally; or the rollback raises as well (the connection is gone)
\* and the exception reaches process_validation
StoreValidated(w) ==
    /\ pc[w] = "store"
    /\ \/ /\ validated_equations' = upsert(validated_equations, cur[w].verdict)
          /\ cur' = [cur EXCEPT ![w].stored = "committed"]
          /\ pc' = [pc EXCEPT ![w] = "ack"]
          /\ UNCHANGED <<queue, faults>>
       \/ /\ Raises
          /\ cur' = [cur EXCEPT ![w].stored = "rolled_back"]
          /\ pc' = [pc EXCEPT ![w] = "ack"]
          /\ UNCHANGED <<queue, validated_equations>>
       \/ /\ Raises
          /\ except_validation(w, [cur[w] EXCEPT !.stored = "rollback_raised"],
                               queue, "pg.rollback")
          /\ UNCHANGED validated_equations
    /\ UNCHANGED <<deployed, now, redis, signalled>>

\* line 130: channel.basic_ack(delivery_tag)
AckValidation(w) ==
    /\ pc[w] = "ack" /\ w \in ValidationWorkers
    /\ cur' = [cur EXCEPT ![w].acks = @ + 1]
    /\ pc' = [pc EXCEPT ![w] = "idle"]
    /\ UNCHANGED <<deployed, now, queue, redis, validated_equations, signalled, faults>>

\* ------------------------------------------------------------- environment
\* an Envelope that already carries a confidence and a betti vector
Annotated(eq, c) ==
    [Envelope(eq) EXCEPT !.keys = @ \cup {"confidence", "betti"},
                         !.confidence = c,
                         !.betti = compute_betti_vector(eq)]

\* an Envelope that already carries pattern tags
Tagged(eq, tags) ==
    [Envelope(eq) EXCEPT !.keys = @ \cup {"patterns"}, !.patterns = tags]

\* what external producers publish on phi.discovery
Inputs ==
    { [body |-> Envelope(EqGroup), key |-> KeyPast],
      [body |-> Envelope(EqGroup), key |-> KeyPresent],
      [body |-> Annotated(EqOpen, 1500), key |-> KeyFuture],
      [body |-> Envelope(EqPhi), key |-> KeyValidation],
      [body |-> Envelope(EqPlain), key |-> KeyPast],
      [body |-> Envelope(EqPlain), key |-> KeyPresent],
      [body |-> Envelope(EqPlain), key |-> KeyFuture],
      [body |-> Garbage, key |-> KeyPast],
      [body |-> Garbage, key |-> KeyValidation],
      [body |-> NoEquation, key |-> KeyPresent] }

\* a Statement with a pattern tag that is not read off its equation, published
\* for each of the discovery stages
TaggedInputs ==
    { [body |-> Tagged(EqGroup, {"symmetry"}), key |-> k] :
        k \in {KeyPast, KeyPresent, KeyFuture} }

\* every equation of Equations, published on every routing key
EquationInputs ==
    { [body |-> Envelope(e), key |-> k] :
        e \in Equations, k \in {KeyPast, KeyPresent, KeyFuture, KeyValidation} }

\* run(), lines 279-289: KeyboardInterrupt ends start_consuming and closes the
\* connection; the broker requeues the delivery that was not settled
Shutdown(w) ==
    /\ w \in deployed /\ pc[w] # "stopped"
    /\ faults < MaxFaults
    /\ faults' = faults + 1
    /\ signalled' = signalled \cup {w}
    /\ pc' = [pc EXCEPT ![w] = "stopped"]
    /\ queue' = IF pc[w] = "idle" THEN queue
                ELSE [queue EXCEPT ![w] = <<cur[w].msg>> \o @]
    /\ UNCHANGED <<deployed, now, cur, redis, validated_equations>>

\* __main__, lines 301-310 / 291-300: a worker that was stopped is started
\* again and consumes its durable queue, where the broker put back the
\* delivery that was not settled
Restart(w) ==
    /\ w \in deployed /\ pc[w] = "stopped"
    /\ pc' = [pc EXCEPT ![w] = "idle"]
    /\ signalled' = signalled \ {w}
    /\ UNCHANGED <<deployed, now, queue, cur, redis, validated_equations, faults>>

\* the time that passes between two steps: half a second, two seconds, or
\* the life of a phase key
Delays == {50, 200, TTL}

\* time passes
Tick ==
    /\ faults < MaxFaults
    /\ faults' = faults + 1
    /\ \E dt \in Delays : now' = now + dt
    /\ UNCHANGED <<deployed, queue, pc, cur, redis, validated_equations, signalled>>

\* the state after the workers of `roles` are constructed and a producer has
\* published one message of `inputs`; the tables have a slot (<<>> while there
\* is no row) for the equations the run can meet
StartedWith(roles, inputs) ==
    /\ deployed = roles
    /\ \E i \in inputs :
          /\ queue = publish([w \in Workers |-> <<>>],
                             Message(i.body, "producer", i.key))
          /\ validation_state =
                [w \in ValidationWorkers |->
                    [e \in Named \cup {i.body.equation} |-> <<>>]]
          /\ validated_equations = [e \in Named \cup {i.body.equation} |-> <<>>]
    /\ pc = [w \in Workers |-> "idle"]
    /\ cur = [w \in Workers |-> NoDelivery]
    /\ now = 0
    /\ phase_keys = [w \in DiscoveryWorkers |-> <<>>]
    /\ last_discovery = <<>>
    /\ chi_current = <<>>
    /\ validations_success = 0
    /\ validations_failed = 0
    /\ signalled = {}
    /\ faults = 0

Started(roles) == StartedWith(roles, Inputs)

\* one step of one callback
Step(w) ==
    \/ ReceiveDiscovery(w)
    \/ RouteDiscovery(w)
    \/ AckDiscovery(w)
    \/ ReceiveValidation(w)
    \/ StoreValidated(w)
    \/ AckValidation(w)

\* the six documented roles, running
Init == Started(DiscoveryTypes \cup ValidationTypes)
Next == \E w \in Workers : Step(w)
Spec == Init /\ [][Next]_vars

\* the six documented roles, with shutdown signals
NextStop == \E w \in Workers : Step(w) \/ Shutdown(w)
SpecStop == Init /\ [][NextStop]_vars

\* the six documented roles and two workers started with another type string
InitOther == Started(Workers)
SpecOther == InitOther /\ [][NextStop]_vars

\* the six documented roles, with validation workers stopped and restarted
NextRestart ==
    \E w \in Workers :
        \/ Step(w)
        \/ w \in ValidationWorkers /\ Shutdown(w)
        \/ Restart(w)
SpecRestart == Init /\ [][NextRestart]_vars

\* the six documented roles, given a Statement that carries pattern tags
InitTagged == StartedWith(DiscoveryTypes \cup ValidationTypes, TaggedInputs)
SpecTagged == InitTagged /\ [][Next]_vars

\* the six documented roles, with time passing
NextClock == Next \/ Tick
SpecClock == Init /\ [][NextClock]_vars

\* the six documented roles, given every equation of Equations, in the runs
\* where no call raises
InitEquations == StartedWith(DiscoveryTypes \cup ValidationTypes, EquationInputs)
NextCalm == \E w \in Workers : Step(w) /\ faults' = faults
SpecEquations == InitEquations /\ [][NextCalm]_vars

\* one step of the callback of w in which no call raises
CalmStep(w) == Step(w) /\ faults' = faults

\* start_consuming (run(), lines 279-289 and 289-299): every worker is a
\* process of its own that keeps taking deliveries from its queue and runs each
\* callback to its end, so a worker that can step eventually does
Fairness == \A w \in Workers : WF_vars(CalmStep(w))

\* what producers publish on discovery.past.scan: the named equations alone,
\* and Statements that already carry a confidence, a betti vector or tags
PastInputs ==
    { [body |-> b, key |-> KeyPast] :
        b \in {Envelope(e) : e \in Named}
              \cup {Annotated(EqOpen, 2400), Tagged(EqPhi, {"symmetry"})} }

InitPast == StartedWith(DiscoveryTypes \cup ValidationTypes, PastInputs)
SpecLive == InitPast /\ [][NextCalm]_vars /\ Fairness

\* ================================================================== claims
\* the messages worker w holds: queued for it, or delivered to its callback
Held(w) ==
    {queue[w][i] : i \in 1..Len(queue[w])}
    \cup (IF cur[w].seen THEN {cur[w].msg} ELSE {})

\* the delivery of w carries a parseable body with an equation
HasEquation(d) == d.seen /\ d.msg.body.ok /\ "equation" \in d.msg.body.keys

\* chi = b0 - b1 + b2 of the equation of a delivery
ChiOf(d) ==
    LET e == d.msg.body.equation
    IN  (count(e, "=") + 1) - (count(e, "(") \div 2) + count(e, "INT")

\* Redis as it is before any worker has written to it
RedisUntouched ==
    /\ \A w \in DiscoveryWorkers : phase_keys[w] = <<>>
    /\ last_discovery = <<>>
    /\ chi_current = <<>>

\* C1: a delivery whose equation has chi > 1 is negatively acknowledged by
\* process_discovery, in every role, and that is all that happens to it: the
\* callback has returned, nothing was written to Redis (no heartbeat,
\* last_discovery or chi_current), nothing was republished and the delivery was
\* not positively acknowledged.
C1_GateRejects ==
    \A w \in DiscoveryTypes :
        (HasEquation(cur[w]) /\ ChiOf(cur[w]) > 1) =>
            /\ cur[w].nacks = 1
            /\ cur[w].acks = 0
            /\ cur[w].wrote = {}
            /\ cur[w].published = <<>>
            /\ pc[w] \in {"idle", "stopped"}
            /\ RedisUntouched
            /\ \A v \in Workers : \A m \in Held(v) : m.publisher # w

\* C1 witness: the phase_optimizer has rejected a chi = 2 equation
C1_Witness ==
    /\ HasEquation(cur["phase_optimizer"])
    /\ ChiOf(cur["phase_optimizer"]) = 2
    /\ cur["phase_optimizer"].nacks = 1

NextStage(p) ==
    CASE p = "past" -> {w \in DiscoveryWorkers : determine_phase(w) = "present"}
      [] p = "present" -> {w \in DiscoveryWorkers : determine_phase(w) = "future"}
      [] p = "future" -> ValidationWorkers

\* C3: a message republished by a discovery worker bound to phase p is only
\* ever held by the queue (or callback) of a worker of the next stage, never by
\* a worker bound to the same or an earlier phase; nothing a discovery worker
\* republished reaches the pattern_recognizer.
C3_ForwardOnly ==
    \A w \in Workers : \A m \in Held(w) :
        m.publisher \in DiscoveryWorkers =>
            /\ w \in NextStage(determine_phase(m.publisher))
            /\ w # "pattern_recognizer"

\* C3 witness: the three hand-offs have happened for one message
C3_Witness ==
    /\ cur["equation_generator"].seen
    /\ cur["equation_generator"].msg.publisher = "pattern_recognizer"
    /\ cur["phase_optimizer"].seen
    /\ cur["phase_optimizer"].msg.publisher = "equation_generator"
    /\ \E m \in Held("theorem_checker") : m.publisher = "phase_optimizer"

\* C4: process_discovery acknowledges a delivery only after its republish has
\* completed (a delivery that is acknowledged, or about to be, has exactly one
\* completed basic_publish and raised nothing), and a delivery in which a step
\* raised is negatively acknowledged and not acknowledged.
C4_AckAfterPublish ==
    \A w \in DiscoveryWorkers :
        /\ (cur[w].acks > 0 \/ pc[w] = "ack") =>
              /\ Len(cur[w].published) = 1
              /\ cur[w].raised = "none"
              /\ cur[w].nacks = 0
        /\ cur[w].raised # "none" =>
              /\ cur[w].nacks = 1
              /\ cur[w].acks = 0

\* C4 witness: a delivery whose republish raised was negatively acknowledged
\* after its Redis writes, and another one was acknowledged after its republish
C4_Witness ==
    /\ cur["equation_generator"].raised = "basic_publish"
    /\ cur["equation_generator"].nacks = 1
    /\ cur["pattern_recognizer"].acks = 1
    /\ cur["pattern_recognizer"].published = <<KeyPresent>>

\* C5: the confidence stored for an equation never decreases, and a row never
\* disappears; an upsert that commits leaves the greater of the confidence
\* stored before it and the confidence of its verdict (the verdict's own
\* confidence when there was no row).
C5_ConfidenceMonotone ==
    [][\A e \in DOMAIN validated_equations :
          /\ validated_equations[e] # <<>> =>
                /\ validated_equations'[e] # <<>>
                /\ validated_equations'[e][1].confidence
                      >= validated_equations[e][1].confidence
          /\ \A w \in ValidationWorkers :
                ( /\ cur[w].stored # "committed"
                  /\ cur'[w].stored = "committed"
                  /\ cur'[w].verdict.equation = e ) =>
                    /\ validated_equations'[e] # <<>>
                    /\ validated_equations'[e][1].confidence =
                          IF validated_equations[e] = <<>>
                          THEN cur'[w].verdict.confidence
                          ELSE IF validated_equations[e][1].confidence
                                    >= cur'[w].verdict.confidence
                               THEN validated_equations[e][1].confidence
                               ELSE cur'[w].verdict.confidence
      ]_vars

\* C5 witness: the symbolic verifier (0.9) was the last to upsert a row that
\* already held 1.0, and the row still holds 1.0
C5_Witness ==
    /\ validated_equations[EqGroup] # <<>>
    /\ validated_equations[EqGroup][1].confidence = 3000
    /\ validated_equations[EqGroup][1].metadata.validation_type = "symbolic"
    /\ cur["symbolic_verifier"].stored = "committed"

\* the three roles have all acknowledged a request for equation e
AllAcked(e) ==
    \A w \in ValidationTypes :
        /\ cur[w].seen
        /\ cur[w].acks = 1
        /\ cur[w].verdict.equation = e

\* the greatest confidence among the verdicts of the three roles
MaxProduced ==
    CHOOSE c \in {cur[w].verdict.confidence : w \in ValidationTypes} :
        \A w \in ValidationTypes : c >= cur[w].verdict.confidence

\* C6: once the three validation workers have all acknowledged the same
\* request, the confidence persisted for its equation is the maximum of the
\* three confidences they produced.
C6_MaxOfThree ==
    \A e \in DOMAIN validated_equations :
        AllAcked(e) =>
            /\ validated_equations[e] # <<>>
            /\ validated_equations[e][1].confidence = MaxProduced

\* the verdict a role produces for an equation
VerdictOf(w, e) ==
    LET v == CHOOSE x \in Verdicts(w, Envelope(e)) : TRUE
    IN  [valid |-> v.valid, confidence |-> v.confidence]

\* C7: a validation request is held by the queue (or callback) of each of the
\* three validation roles as soon as any of them holds it, and whatever one
\* role does with its copy (invalid verdict, nack, redelivery, shutdown) the
\* other roles keep theirs; the validation state a role has written for an
\* equation is that role's own verdict.
C7_FanOut ==
    /\ \A u \in ValidationTypes : \A v \in ValidationTypes : Held(u) \subseteq Held(v)
    /\ cur["phase_optimizer"].published # <<>> =>
          \A v \in ValidationTypes :
              \E m \in Held(v) : m.publisher = "phase_optimizer"
    /\ \A v \in ValidationTypes :
          /\ "validation" \in cur[v].wrote =>
                validation_state[v][cur[v].verdict.equation] # <<>>
          /\ \A e \in DOMAIN validation_state[v] :
                validation_state[v][e] # <<>> =>
                    validation_state[v][e][1] = VerdictOf(v, e)

\* C7 witness: the theorem checker acknowledged an invalid verdict, the
\* numerical validator negatively acknowledged its copy, and the symbolic
\* verifier produced its verdict all the same
C7_Witness ==
    /\ cur["theorem_checker"].acks = 1
    /\ ~cur["theorem_checker"].verdict.valid
    /\ cur["numerical_validator"].nacks = 1
    /\ cur["symbolic_verifier"].acks = 1
    /\ validation_state["symbolic_verifier"][EqOpen] # <<>>

\* C8: process_validation acknowledges a delivery only after the verdict was
\* produced, the validation state written, the counter incremented and, for a
\* valid verdict, the upsert committed; an error in that sequence yields a
\* negative acknowledgment and no acknowledgment.
C8_AckAfterSequence ==
    \A w \in ValidationWorkers :
        /\ cur[w].acks > 0 =>
              /\ cur[w].wrote = {"validation", "counter"}
              /\ cur[w].verdict.valid => cur[w].stored = "committed"
              /\ cur[w].nacks = 0
        /\ cur[w].raised # "none" =>
              /\ cur[w].nacks = 1
              /\ cur[w].acks = 0

\* a store write or the upsert of the delivery failed
StoreFailed(d) ==
    \/ d.raised \in {"redis.setex", "redis.hset", "redis.set", "redis.incr", "pg.rollback"}
    \/ d.stored \in {"rolled_back", "rollback_raised"}

\* C9: a delivery whose store write or upsert failed is never positively
\* acknowledged; once its callback has returned it is negatively acknowledged.
C9_FailedStoreNacked ==
    \A w \in Workers :
        StoreFailed(cur[w]) =>
            /\ cur[w].acks = 0
            /\ pc[w] = "idle" => cur[w].nacks = 1

C11_ParseFailureNacked ==
    \A w \in DiscoveryWorkers :
        (cur[w].seen /\ ~HasEquation(cur[w])) =>
            /\ cur[w].nacks = 1
            /\ cur[w].acks = 0
            /\ cur[w].raised \in {"json.loads", "KeyError:equation"}
            /\ cur[w].wrote = {}
            /\ cur[w].published = <<>>
            /\ pc[w] \in {"idle", "stopped"}
            /\ RedisUntouched
            /\ \A v \in Workers : \A m \in Held(v) : m.publisher # w

\* C11 witness: the equation_generator has rejected a JSON object that has no
\* equation field
C11_Witness ==
    /\ cur["equation_generator"].seen
    /\ cur["equation_generator"].msg.body = NoEquation
    /\ cur["equation_generator"].raised = "KeyError:equation"
    /\ cur["equation_generator"].nacks = 1

\* the number of places of equation e that hold ch
Occurrences(e, ch) == Cardinality({i \in 1..Len(e) : e[i] = ch})

\* the delivery was negatively acknowledged by the gate, not by the handler
GateRejected(d) ==
    d.seen /\ d.nacks = 1 /\ d.raised = "none" /\ d.result = Garbage

\* C12: the Betti vector process_discovery computes for an equation is
\* [number of "=" + 1, number of "(" divided by two, number of integral
\* markers], whatever the role, the contents of Redis and the deliveries
\* handled before; the gate rejects exactly when b0 - b1 + b2 of that vector
\* exceeds 1.
C12_BettiPure ==
    \A w \in DiscoveryTypes :
        HasEquation(cur[w]) =>
            LET e == cur[w].msg.body.equation
                b == cur[w].betti
            IN  /\ b = <<Occurrences(e, "=") + 1,
                         Occurrences(e, "(") \div 2,
                         Occurrences(e, "INT")>>
                /\ GateRejected(cur[w]) <=> b[1] - b[2] + b[3] > 1
                /\ \A v \in DiscoveryTypes :
                      (HasEquation(cur[v]) /\ cur[v].msg.body.equation = e) =>
                          cur[v].betti = b

\* C12 witness: the pattern_recognizer and, after Redis was written, the
\* phase_optimizer computed the same vector [2, 1, 0] for "(=("
C12_Witness ==
    /\ HasEquation(cur["pattern_recognizer"])
    /\ cur["pattern_recognizer"].msg.body.equation = <<"(", "=", "(">>
    /\ cur["pattern_recognizer"].betti = <<2, 1, 0>>
    /\ HasEquation(cur["phase_optimizer"])
    /\ cur["phase_optimizer"].betti = <<2, 1, 0>>
    /\ last_discovery # <<>>

\* C13: an equation with exactly one "=", fewer than two "(" and no integral
\* marker has the Betti vector [2, 0, 0], chi = 2, and is rejected by the gate
\* of every discovery role: negatively acknowledged, nothing written, nothing
\* republished.
C13_SingleSeparatorRejected ==
    \A w \in DiscoveryTypes :
        ( /\ HasEquation(cur[w])
          /\ Occurrences(cur[w].msg.body.equation, "=") = 1
          /\ Occurrences(cur[w].msg.body.equation, "(") < 2
          /\ Occurrences(cur[w].msg.body.equation, "INT") = 0 ) =>
            /\ cur[w].betti = <<2, 0, 0>>
            /\ euler(cur[w].betti) = 2
            /\ GateRejected(cur[w])
            /\ cur[w].acks = 0
            /\ cur[w].wrote = {}
            /\ cur[w].published = <<>>

\* C13 witness: the equation_generator rejected the golden-ratio identity of
\* Scenario A
C13_Witness ==
    /\ HasEquation(cur["equation_generator"])
    /\ cur["equation_generator"].msg.body.equation = EqGolden
    /\ GateRejected(cur["equation_generator"])

\* the phase a delivery was processed at: the phase word of the key it came on
OriginPhase(d) == d.msg.key[2]

\* the routing key the design gives to a Statement of origin phase p
KeyAfter(p) ==
    CASE p = "past" -> KeyPresent
      [] p = "present" -> KeyFuture
      [] p = "future" -> KeyValidation

\* C14: a delivery a discovery worker processed publishes at most once, an
\* acknowledged one exactly once, and always on the key of its origin phase:
\* past -> discovery.present.equation, present -> discovery.future.optimize,
\* future -> validation.request; the copies in the queues carry that key.
C14_RoutingKey ==
    \A w \in DiscoveryTypes :
        cur[w].seen =>
            /\ Len(cur[w].published) <= 1
            /\ cur[w].acks > 0 => Len(cur[w].published) = 1
            /\ cur[w].published # <<>> =>
                  /\ cur[w].published[1] = KeyAfter(OriginPhase(cur[w]))
                  /\ OriginPhase(cur[w]) = determine_phase(w)
            /\ \A v \in Workers : \A m \in Held(v) :
                  m.publisher = w => m.key = KeyAfter(OriginPhase(cur[w]))

\* C14 witness: one Statement was processed and acknowledged at the three
\* phases, each republish on the key of the next stage
C14_Witness ==
    /\ cur["pattern_recognizer"].acks = 1
    /\ cur["pattern_recognizer"].published = <<KeyPresent>>
    /\ cur["equation_generator"].acks = 1
    /\ cur["equation_generator"].published = <<KeyFuture>>
    /\ cur["phase_optimizer"].acks = 1
    /\ cur["phase_optimizer"].published = <<KeyValidation>>

RECURSIVE SquaredGaps(_, _)
\* the sum of (P[v] - P[w])^2 over the pairs <<v, w>> of `pairs`
SquaredGaps(P, pairs) ==
    IF pairs = {} THEN 0
    ELSE LET p == CHOOSE q \in pairs : TRUE
         IN  (P[p[1]] - P[p[2]]) * (P[p[1]] - P[p[2]]) + SquaredGaps(P, pairs \ {p})

\* n^2 times the variance of the values of P: the sum of the squared gaps over
\* the unordered pairs
Dispersion(P) == SquaredGaps(P, (DOMAIN P) \X (DOMAIN P)) \div 2

\* C15: the coherence the phase_optimizer got from check_phase_lock lies in
\* [0, 1] whatever live phase entries it read; it is 0 when it read none
\* (nothing written yet, or everything expired), 1 when the entries do not
\* differ, 0 when their standard deviation is at least psi (61.8 hundredths of
\* a second, so 62 of them for a whole number) and strictly between otherwise.
C15_Coherence ==
    LET d == cur["phase_optimizer"]
        c == d.result.phase_lock
        P == d.phases
        n == Cardinality(DOMAIN P)
    IN  (d.seen /\ d.result.ok) =>
            /\ "phase_lock" \in d.result.keys
            /\ c >= 0 /\ c <= 3000
            /\ n = 0 => c = 0
            /\ (n > 0 /\ Dispersion(P) = 0) => c = 3000
            /\ (n > 0 /\ Dispersion(P) >= 62 * 62 * n * n) => c = 0
            /\ (n > 0 /\ Dispersion(P) > 0 /\ Dispersion(P) < 62 * 62 * n * n) =>
                  (c > 0 /\ c < 3000)

\* C15 witness: the entries of the two earlier stages had expired when the
\* phase_optimizer called check_phase_lock, and it got 0
C15_Witness ==
    /\ cur["phase_optimizer"].seen
    /\ cur["phase_optimizer"].result.ok
    /\ cur["phase_optimizer"].phases = <<>>
    /\ cur["phase_optimizer"].result.phase_lock = 0
    /\ phase_keys["pattern_recognizer"] # <<>>
    /\ phase_keys["equation_generator"] # <<>>

\* the "(" minus the ")" among the first k characters of e
Depth(e, k) ==
    Cardinality({i \in 1..k : e[i] = "("}) - Cardinality({i \in 1..k : e[i] = ")"})

\* C16: the well_formed check of the theorem checker is true exactly when the
\* equation is not empty, contains "=", and scanning it from the left the
\* number of "(" minus the number of ")" never goes below zero and ends at
\* zero; it is false for "(a=b" and for ")a=b(".
C16_WellFormed ==
    LET d == cur["theorem_checker"]
        e == d.msg.body.equation
    IN  HasEquation(d) =>
            /\ d.verdict.validation_type = "theorem"
            /\ d.verdict.checks.well_formed <=>
                  /\ Len(e) > 0
                  /\ Occurrences(e, "=") > 0
                  /\ \A k \in 0..Len(e) : Depth(e, k) >= 0
                  /\ Depth(e, Len(e)) = 0
            /\ e \in {EqHalfOpen, EqInverted} => ~d.verdict.checks.well_formed

\* C16 witness: the theorem checker found ")a=b(", whose parentheses are as
\* many of each kind, not well formed
C16_Witness ==
    /\ HasEquation(cur["theorem_checker"])
    /\ cur["theorem_checker"].verdict.equation = EqInverted
    /\ ~cur["theorem_checker"].verdict.checks.well_formed
    /\ "validation" \in cur["theorem_checker"].wrote

\* C17: the verdict of the theorem checker is valid exactly when all its
\* checks passed, and its confidence is the passed checks over all checks;
\* for "(a=b" well_formed is false and the verdict is not valid.
C17_TheoremVerdict ==
    LET d == cur["theorem_checker"]
        v == d.verdict
    IN  HasEquation(d) =>
            /\ v.valid <=> /\ v.checks.well_formed
                           /\ v.checks.dimensionally_consistent
                           /\ v.checks.mathematically_valid
            /\ 3 * v.confidence =
                  3000 * Cardinality({k \in DOMAIN v.checks : v.checks[k]})
            /\ v.equation = EqHalfOpen => (~v.checks.well_formed /\ ~v.valid)

\* C17 witness: the verdict for "(a=b" is not valid, with two checks of three
\* passed
C17_Witness ==
    /\ HasEquation(cur["theorem_checker"])
    /\ cur["theorem_checker"].verdict.equation = EqHalfOpen
    /\ ~cur["theorem_checker"].verdict.valid
    /\ cur["theorem_checker"].verdict.confidence = 2000
    /\ cur["theorem_checker"].acks = 1

C19_SymbolicVerdict ==
    LET d == cur["symbolic_verifier"]
        v == d.verdict
    IN  HasEquation(d) =>
            /\ d.raised = "none"
            /\ v.validation_type = "symbolic"
            /\ v.equation = d.msg.body.equation
            /\ Occurrences(v.equation, "=") = 0 => (~v.valid /\ v.confidence = 0)
            /\ Occurrences(v.equation, "=") > 0 => (v.valid /\ v.confidence = 2700)

\* C19 witness: the symbolic verifier acknowledged a request for "((", which
\* has no "=", with a verdict that is not valid
C19_Witness ==
    /\ HasEquation(cur["symbolic_verifier"])
    /\ cur["symbolic_verifier"].verdict.equation = <<"(", "(">>
    /\ ~cur["symbolic_verifier"].verdict.valid
    /\ cur["symbolic_verifier"].verdict.confidence = 0
    /\ cur["symbolic_verifier"].acks = 1

\* the validation workers whose _update_validation_state returns in this step
Updated ==
    {w \in ValidationWorkers : pc[w] = "idle" /\ pc'[w] \in {"store", "ack"}}

\* C20: a verdict whose _update_validation_state returns has written the
\* validation state of its role and equation and has added exactly one to
\* validations:success when valid, to validations:failed when not, leaving
\* the other counter alone; in every step neither counter decreases and their
\* sum grows by the number of such verdicts (so that, from 0, the sum is the
\* number of verdicts whose update completed).
C20_Counters ==
    [][/\ validations_success' >= validations_success
       /\ validations_failed' >= validations_failed
       /\ (validations_success' - validations_success)
             + (validations_failed' - validations_failed) = Cardinality(Updated)
       /\ \A w \in Updated :
             LET v == cur'[w].verdict
             IN  /\ validation_state'[w][v.equation] =
                       <<[valid |-> v.valid, confidence |-> v.confidence]>>
                 /\ validations_success' - validations_success =
                       IF v.valid THEN 1 ELSE 0
                 /\ validations_failed' - validations_failed =
                       IF v.valid THEN 0 ELSE 1
      ]_vars

\* C20 witness: the three roles have counted their verdicts for "((a=b", two
\* valid and one not, and a role whose delivery came back after a failed
\* rollback has counted its valid verdict a second time
C20_Witness ==
    /\ \A w \in ValidationTypes :
          /\ cur[w].verdict.equation = EqOpen
          /\ "counter" \in cur[w].wrote
    /\ validations_failed = 1
    /\ validations_success = 3

\* C21: a row of validated_equations is the work of a valid verdict (its
\* metadata is a verdict with valid = true for the row's equation, and a role
\* holds such a verdict); a delivery whose verdict is not valid never reaches
\* the upsert, and once its callback has returned without a raise it is
\* acknowledged.
C21_OnlyValidPersisted ==
    /\ \A e \in DOMAIN validated_equations :
          validated_equations[e] # <<>> =>
              /\ validated_equations[e][1].metadata.valid
              /\ validated_equations[e][1].metadata.equation = e
              /\ \E w \in ValidationTypes :
                    cur[w].verdict.equation = e /\ cur[w].verdict.valid
    /\ \A w \in ValidationTypes :
          (cur[w].verdict.validation_type # "none" /\ ~cur[w].verdict.valid) =>
              /\ pc[w] # "store"
              /\ cur[w].stored = "none"
              /\ (pc[w] = "idle" /\ cur[w].raised = "none") =>
                    (cur[w].acks = 1 /\ cur[w].nacks = 0)

\* C21 witness: the theorem checker acknowledged its verdict for "((a=b",
\* which is not valid, and the row of that equation was written by another
\* role
C21_Witness ==
    /\ cur["theorem_checker"].verdict.equation = EqOpen
    /\ ~cur["theorem_checker"].verdict.valid
    /\ cur["theorem_checker"].acks = 1
    /\ validated_equations[EqOpen] # <<>>
    /\ validated_equations[EqOpen][1].metadata.validation_type # "theorem"

\* the roles whose upsert commits in this step
Committing ==
    {w \in ValidationTypes :
        pc[w] = "store" /\ cur[w].stored = "none" /\ cur'[w].stored = "committed"}

\* C22: when a role processes a request again, the upsert it repeats leaves
\* the persisted confidence as it was: an upsert that finds a row whose
\* confidence is at least that of its verdict (as it is once the role has
\* stored that verdict) does not change the confidence; and neither
\* validations:success nor validations:failed ever decreases.
C22_RedeliveryTolerated ==
    [][/\ validations_success' >= validations_success
       /\ validations_failed' >= validations_failed
       /\ \A w \in Committing :
             LET v == cur[w].verdict
                 row == validated_equations[v.equation]
             IN  (row # <<>> /\ row[1].confidence >= v.confidence) =>
                     /\ validated_equations'[v.equation] # <<>>
                     /\ validated_equations'[v.equation][1].confidence
                           = row[1].confidence
      ]_vars

\* C22 witness: the numerical validator was stopped after its upsert for
\* "((phi))" had committed, was started again, got the request back, counted
\* its verdict a second time and is at the upsert again
C22_Witness ==
    /\ faults = 1
    /\ pc["numerical_validator"] = "store"
    /\ cur["numerical_validator"].verdict.equation = EqPhi
    /\ validations_success = 2
    /\ validated_equations[EqPhi] # <<>>
    /\ validated_equations[EqPhi][1].metadata.validation_type = "numerical"
    /\ validated_equations[EqPhi][1].confidence = 3000

\* a step of the delivery raised in a Redis call
RedisRaised(d) == d.raised \in {"redis.setex", "redis.hset", "redis.set", "redis.incr"}

\* C23: a delivery that a discovery worker enriched, and in which no Redis
\* call raised, has overwritten last_discovery exactly when the confidence of
\* the enriched Statement is strictly greater than psi.
C23_LastDiscoveryThreshold ==
    \A w \in DiscoveryTypes :
        (cur[w].seen /\ cur[w].result.ok /\ ~RedisRaised(cur[w])) =>
            ("last_discovery" \in cur[w].wrote
                <=> get_confidence(cur[w].result) > PSI)

\* C24: a delivery that passed the gate (which computed its Betti vector) and
\* was acknowledged has stored chi_current, and chi_current is b0 - b1 + b2 of
\* that vector.
C24_ChiCurrentStored ==
    \A w \in DiscoveryTypes :
        (cur[w].seen /\ cur[w].betti # NoBetti /\ cur[w].acks = 1) =>
            /\ "chi_current" \in cur[w].wrote
            /\ chi_current = <<euler(cur[w].betti)>>

\* the pattern tags of a Statement
PatternsOf(data) == IF "patterns" \in data.keys THEN data.patterns ELSE {}

\* C25: the Statement a discovery worker builds from a consumed message, and
\* republishes, has every pattern tag of the consumed message.
C25_PatternsAccumulate ==
    /\ \A w \in DiscoveryTypes :
          (cur[w].seen /\ cur[w].result.ok) =>
              PatternsOf(cur[w].msg.body) \subseteq PatternsOf(cur[w].result)
    /\ \A v \in Workers : \A m \in Held(v) :
          (m.publisher \in DiscoveryTypes /\ cur[m.publisher].seen) =>
              PatternsOf(cur[m.publisher].msg.body) \subseteq PatternsOf(m.body)

\* C26: an upsert that commits on an existing row replaces the metadata of the
\* row by the verdict of the writer and makes the confidence the greater of
\* the stored one and the verdict's; so the metadata of a row is always the
\* verdict of its last writer, whose confidence may be below the stored one.
C26_MetadataLastWriter ==
    [][\A w \in Committing :
          LET v == cur[w].verdict
              before == validated_equations[v.equation]
              after == validated_equations'[v.equation]
          IN  /\ after # <<>>
              /\ after[1].metadata = v
              /\ after[1].metadata.confidence <= after[1].confidence
              /\ before # <<>> =>
                    /\ after[1].confidence >= before[1].confidence
                    /\ after[1].confidence >= v.confidence
                    /\ after[1].confidence \in {before[1].confidence, v.confidence}
      ]_vars

\* C26 witness: the row of "((a=b" was inserted by the numerical validator
\* with 1.0 and then updated by the symbolic verifier: the metadata is the
\* symbolic verdict with 0.9, the confidence is still 1.0
C26_Witness ==
    /\ validated_equations[EqOpen] # <<>>
    /\ validated_equations[EqOpen][1].validation_type = "numerical"
    /\ validated_equations[EqOpen][1].metadata.validation_type = "symbolic"
    /\ validated_equations[EqOpen][1].metadata.confidence = 2700
    /\ validated_equations[EqOpen][1].confidence = 3000

\* the delivery carries a JSON object with a non-empty equation of chi <= 1
\* and no other field
BareEnvelope(d) ==
    /\ d.seen /\ d.msg.body.ok
    /\ d.msg.body.keys = {"equation"}
    /\ d.msg.body.equation # <<>>
    /\ ChiOf(d) <= 1

\* C27: a delivery that carries only a non-empty equation with chi <= 1, and
\* in which no call to Redis or RabbitMQ raised, is enriched, republished once
\* and acknowledged by whichever of the three discovery roles received it.
C27_EquationOnlyRequired ==
    \A w \in DiscoveryTypes :
        ( /\ BareEnvelope(cur[w])
          /\ ~RedisRaised(cur[w])
          /\ cur[w].raised # "basic_publish"
          /\ pc[w] = "idle" ) =>
            /\ cur[w].result.ok
            /\ Len(cur[w].published) = 1
            /\ cur[w].acks = 1
            /\ cur[w].nacks = 0

\* the callback of w has returned from the delivery recorded in cur[w]
Returned(w) == cur[w].seen /\ pc[w] = "idle"

\* C28: no delivery is ever both acknowledged and negatively acknowledged or
\* settled twice, and once the callback (process_discovery or
\* process_validation) has returned, by whichever path (gate rejection,
\* success, exception, unknown role), exactly one basic_ack or basic_nack has
\* been issued for the delivery.
C28_SettledExactlyOnce ==
    \A w \in Workers :
        /\ cur[w].acks + cur[w].nacks <= 1
        /\ Returned(w) => cur[w].acks + cur[w].nacks = 1
        /\ (cur[w].seen /\ pc[w] \notin {"idle", "stopped"}) =>
              cur[w].acks + cur[w].nacks = 0

\* one message has been handled by two workers, one of which raised and
\* nacked while the other succeeded and acked
C28_Witness ==
    /\ \E w \in Workers :
          Returned(w) /\ cur[w].raised # "none"
          /\ cur[w].nacks = 1 /\ cur[w].acks = 0
    /\ \E w \in Workers :
          Returned(w) /\ cur[w].acks = 1 /\ cur[w].nacks = 0

\* every message held anywhere in the deployment
AllHeld == UNION {Held(w) : w \in Workers}

\* C29: the Statement a discovery worker builds and republishes, and the
\* verdict a validation worker builds, carry the equation of the consumed
\* message; so all the messages that descend from one published message carry
\* one equation, and a message republished by a discovery worker is never
\* rejected by the gate of a later discovery worker.
C29_EquationPreserved ==
    /\ \A w \in DiscoveryTypes :
          (cur[w].seen /\ cur[w].result.ok) =>
              /\ cur[w].result.equation = cur[w].msg.body.equation
              /\ ("equation" \in cur[w].result.keys)
                    = ("equation" \in cur[w].msg.body.keys)
    /\ \A v \in ValidationTypes :
          (cur[v].seen /\ cur[v].verdict # NoVerdict) =>
              cur[v].verdict.equation = cur[v].msg.body.equation
    /\ \A m, n \in AllHeld :
          (m.body.ok /\ n.body.ok) => m.body.equation = n.body.equation
    /\ \A w \in DiscoveryTypes :
          (cur[w].seen /\ cur[w].msg.publisher \in DiscoveryTypes) =>
              ~GateRejected(cur[w])

\* an equation with parentheses has gone through the three discovery stages
\* and a validation worker has built its verdict on the same equation
C29_Witness ==
    /\ cur["pattern_recognizer"].seen
    /\ contains(cur["pattern_recognizer"].msg.body.equation, "(")
    /\ cur["equation_generator"].acks = 1
    /\ cur["phase_optimizer"].acks = 1
    /\ cur["phase_optimizer"].published # <<>>
    /\ cur["theorem_checker"].verdict # NoVerdict
    /\ cur["theorem_checker"].verdict.equation
          = cur["pattern_recognizer"].msg.body.equation

\* count('=') + 1 + count(integral marker) - count('(') div 2 of an equation
Chi(e) ==
    Occurrences(e, "=") + 1 + Occurrences(e, "INT") - (Occurrences(e, "(") \div 2)

\* the validation request being handled came out of the discovery pipeline
FromPipeline ==
    \E v \in ValidationTypes :
        cur[v].seen /\ cur[v].msg.publisher = "phase_optimizer"

\* C30: every message a discovery worker has published, on
\* discovery.present.equation, discovery.future.optimize or validation.request,
\* carries an equation with chi <= 1; so does every validation request the
\* phase_optimizer produced, and every equation that has a row in
\* validated_equations because of such a request.
C30_PublishedWithinGate ==
    /\ \A w \in DiscoveryTypes :
          (cur[w].seen /\ cur[w].published # <<>>) =>
              /\ Chi(cur[w].result.equation) <= 1
              /\ \A i \in 1..Len(cur[w].published) :
                    cur[w].published[i] \in {KeyPresent, KeyFuture, KeyValidation}
    /\ \A v \in Workers : \A m \in Held(v) :
          m.publisher \in DiscoveryTypes =>
              /\ m.key \in {KeyPresent, KeyFuture, KeyValidation}
              /\ Chi(m.body.equation) <= 1
    /\ FromPipeline =>
          \A e \in DOMAIN validated_equations :
              validated_equations[e] # <<>> => Chi(e) <= 1

\* a validation request of the phase_optimizer has been validated and its
\* equation, which has an "=" and is admitted for its parentheses, has a row
C30_Witness ==
    \E v \in ValidationTypes :
        /\ cur[v].msg.publisher = "phase_optimizer"
        /\ cur[v].stored = "committed"
        /\ validated_equations[cur[v].msg.body.equation] # <<>>
        /\ contains(cur[v].msg.body.equation, "=")

\* the producer's message is a parseable body with an equation of chi <= 1
\* and waits on a discovery.past.* key for the pattern_recognizer
PastAdmitted ==
    \E m \in Held("pattern_recognizer") :
        /\ m.publisher = "producer" /\ m.key = KeyPast
        /\ m.body.ok /\ "equation" \in m.body.keys
        /\ Chi(m.body.equation) <= 1

\* w handled the delivery that v published: once, acknowledged, no nack
HandledFrom(w, v) ==
    /\ Returned(w) /\ cur[w].msg.publisher = v
    /\ cur[w].acks = 1 /\ cur[w].nacks = 0
    /\ queue[w] = <<>>

\* the message went through the three discovery stages, one validation
\* request was published, and each validation worker acknowledged it
PipelineCompleted ==
    /\ HandledFrom("pattern_recognizer", "producer")
    /\ cur["pattern_recognizer"].published = <<KeyPresent>>
    /\ HandledFrom("equation_generator", "pattern_recognizer")
    /\ cur["equation_generator"].published = <<KeyFuture>>
    /\ HandledFrom("phase_optimizer", "equation_generator")
    /\ cur["phase_optimizer"].published = <<KeyValidation>>
    /\ \A v \in ValidationTypes : HandledFrom(v, "phase_optimizer")

\* a stage only ever handles what the stage before it published
StagesInOrder ==
    /\ cur["equation_generator"].seen =>
          /\ cur["equation_generator"].msg.publisher = "pattern_recognizer"
          /\ cur["pattern_recognizer"].published = <<KeyPresent>>
    /\ cur["phase_optimizer"].seen =>
          /\ cur["phase_optimizer"].msg.publisher = "equation_generator"
          /\ cur["equation_generator"].published = <<KeyFuture>>
    /\ \A v \in ValidationTypes : cur[v].seen =>
          /\ cur[v].msg.publisher = "phase_optimizer"
          /\ cur["phase_optimizer"].published = <<KeyValidation>>
    /\ \A w \in DiscoveryTypes : Len(cur[w].published) <= 1 /\ cur[w].nacks = 0

\* C31: when no call raises and every worker that can step eventually does, a
\* parseable message with an equation of chi <= 1 published on a
\* discovery.past.* key is handled and acknowledged once by the
\* pattern_recognizer, the equation_generator and the phase_optimizer, in that
\* order, exactly one validation.request is published for it, and each of the
\* three validation workers eventually handles and acknowledges that request;
\* the pipeline then stays completed.
C31_PipelineCompletes ==
    /\ PastAdmitted => [](StagesInOrder)
    /\ PastAdmitted => <>[](PipelineCompleted)

\* the pipeline has completed for a message with a parenthesised equation
C31_Witness ==
    /\ PipelineCompleted
    /\ contains(cur["pattern_recognizer"].msg.body.equation, "(")
    /\ contains(cur["pattern_recognizer"].msg.body.equation, "=")

\* worker w rejects message m whenever it is delivered: the body does not
\* parse, or w is a discovery worker and the equation has chi > 1
Rejectable(w, m) ==
    \/ ~m.body.ok
    \/ w \in DiscoveryWorkers /\ Chi(m.body.equation) > 1

\* the messages waiting in the queue of w
Queued(w) == {queue[w][i] : i \in 1..Len(queue[w])}

\* w has negatively acknowledged a message it always rejects, and the message
\* is back in its queue
Requeued(w) ==
    /\ Returned(w) /\ cur[w].nacks = 1
    /\ Rejectable(w, cur[w].msg)
    /\ queue[w] = <<cur[w].msg>>

\* the callback of w takes the next delivery
Receive(w) == ReceiveDiscovery(w) \/ ReceiveValidation(w)

\* C32: a negative acknowledgement puts the message back at the end of the
\* queue of the worker that issued it; a message with an unparseable body, or
\* with chi > 1 at a discovery worker, is never acknowledged and never
\* republished by that worker and never leaves its queue (or callback); once it
\* was rejected and requeued it can be delivered again, and every such
\* redelivery ends in the very state it started from.
C32_RejectedForever ==
    /\ [][\A w \in Workers :
            cur'[w].nacks > cur[w].nacks \/ (cur'[w] # cur[w] /\ cur'[w].nacks = 1) =>
                /\ Len(queue'[w]) > 0
                /\ queue'[w][Len(queue'[w])] = cur'[w].msg]_vars
    /\ [][\A w \in Workers : \A m \in Held(w) :
            Rejectable(w, m) =>
                /\ m \in Held(w)'
                /\ cur'[w].acks = 0
                /\ cur'[w].published = <<>>
                /\ cur'[w].wrote = {}]_vars
    /\ [](\A w \in Workers :
            Requeued(w) /\ pc[w] = "idle" /\ w \notin signalled =>
                /\ ENABLED Receive(w)
                /\ ~ENABLED (Receive(w) /\ vars' # vars))

\* a discovery worker has rejected an equation with chi > 1 at the gate and
\* the message is back in its queue, ready to be delivered again
C32_Witness ==
    \E w \in DiscoveryTypes :
        /\ Requeued(w) /\ GateRejected(cur[w])
        /\ cur[w].msg.body.ok
        /\ ENABLED ReceiveDiscovery(w)

\* 0.9 and 1.0 in the unit of the model
StoredConfidences == {(9 * 3000) \div 10, 3000}

\* the confidence a valid verdict of each validation type carries
ValidConfidence(validation_type) ==
    IF validation_type = "symbolic" THEN (9 * 3000) \div 10 ELSE 3000

\* C33: every row of validated_equations has confidence 0.9 or 1.0, whatever
\* confidence the request carried; a valid verdict has confidence 1.0 (theorem,
\* numerical) or 0.9 (symbolic), and a verdict with any other confidence is
\* not valid and is not stored.
C33_StoredConfidences ==
    /\ \A e \in DOMAIN validated_equations :
          validated_equations[e] # <<>> =>
              validated_equations[e][1].confidence \in StoredConfidences
    /\ \A v \in ValidationTypes :
          (cur[v].seen /\ cur[v].verdict # NoVerdict) =>
              /\ cur[v].verdict.valid =>
                    cur[v].verdict.confidence
                        = ValidConfidence(cur[v].verdict.validation_type)
              /\ cur[v].verdict.confidence \notin StoredConfidences =>
                    /\ ~cur[v].verdict.valid
                    /\ cur[v].stored = "none"
                    /\ pc[v] # "store"

\* a request that came out of the pipeline with the generator's confidence
\* has a row, and another validator found the same equation not valid
C33_Witness ==
    /\ \E v \in ValidationTypes :
          /\ cur[v].stored = "committed"
          /\ "confidence" \in cur[v].msg.body.keys
          /\ cur[v].msg.body.confidence \notin StoredConfidences
          /\ validated_equations[cur[v].msg.body.equation] # <<>>
    /\ \E v \in ValidationTypes :
          /\ cur[v].acks = 1 /\ ~cur[v].verdict.valid
          /\ cur[v].verdict.confidence \notin StoredConfidences

\* the enriched Statement of the delivery has a confidence above psi
Confident(d) == get_confidence(d.result) > PSI

\* the writes of a discovery delivery happen in the order heartbeat,
\* last_discovery, republish, and a delivery that raised later keeps them
WritesKept ==
    \A w \in DiscoveryTypes :
        cur[w].seen =>
            /\ "last_discovery" \in cur[w].wrote => "phase" \in cur[w].wrote
            /\ (cur[w].published # <<>> \/ pc[w] \in {"publish", "ack"}) =>
                  /\ "phase" \in cur[w].wrote
                  /\ Confident(cur[w]) => "last_discovery" \in cur[w].wrote
            /\ "phase" \in cur[w].wrote => phase_keys[w] # <<>>
            /\ "last_discovery" \in cur[w].wrote => last_discovery # <<>>
            /\ cur[w].raised \in {"redis.hset", "redis.set", "basic_publish"} =>
                  /\ cur[w].nacks = 1
                  /\ "phase" \in cur[w].wrote
            /\ cur[w].raised = "redis.hset" => "last_discovery" \notin cur[w].wrote
            /\ (cur[w].raised = "basic_publish" /\ Confident(cur[w])) =>
                  "last_discovery" \in cur[w].wrote

\* a step in which w takes again the delivery it negatively acknowledged
Redelivered(w) ==
    /\ Returned(w) /\ cur[w].nacks = 1
    /\ queue[w] # <<>> /\ Head(queue[w]) = cur[w].msg
    /\ cur'[w] # cur[w] \/ pc'[w] # pc[w]

\* a redelivery writes the heartbeat again, and last_discovery again, unless
\* the write itself raises this time; a delivery that wrote nothing leaves the
\* store as it was
RedeliveryRepeats ==
    \A w \in DiscoveryTypes :
        /\ (Redelivered(w) /\ "phase" \in cur[w].wrote) =>
              /\ cur'[w].raised # "redis.setex" =>
                    /\ "phase" \in cur'[w].wrote
                    /\ phase_keys'[w] = <<now>>
              /\ ( /\ "last_discovery" \in cur[w].wrote
                    /\ cur'[w].raised \notin {"redis.setex", "redis.hset"} ) =>
                    "last_discovery" \in cur'[w].wrote
        /\ (cur'[w] # cur[w] /\ cur'[w].wrote = {}) =>
              /\ phase_keys' = phase_keys
              /\ last_discovery' = last_discovery
              /\ chi_current' = chi_current

\* a delivery that returned without a write was rejected by the parse or
\* the gate
UntouchedOnlyRejected ==
    \A w \in DiscoveryTypes :
        (Returned(w) /\ cur[w].wrote = {}) =>
            GateRejected(cur[w]) \/ cur[w].raised = "json.loads"

\* a delivery returned without a write exactly when it failed before the
\* heartbeat was written: the parse, a missing equation, the gate, or the
\* heartbeat write itself
UntouchedBeforeHeartbeat ==
    \A w \in DiscoveryTypes :
        Returned(w) =>
            (cur[w].wrote = {}
                <=> \/ GateRejected(cur[w])
                    \/ cur[w].raised \in {"json.loads", "KeyError:equation",
                                          "redis.setex"})

====
